---- MODULE Spec2Model ----
(***************************************************************************)
(* Model of the Calculator session (app/calculator.py): the bounded        *)
(* history, the memento based undo/redo stacks and the observer            *)
(* notification, together with the operations, the Calculation value       *)
(* object and the persistence entry points it calls.                       *)
(* Beside the session it models a Calculation on its way through to_dict   *)
(* and from_dict (app/calculation.py) and a CalculationHistory with the    *)
(* memento manager that saves and restores it (app/history.py,             *)
(* app/calculator_memento.py), and direct calls of the operand validation, *)
(* of the operations and of AutoSaveObserver.update, and the command loop   *)
(* of the front end (app/calculator_repl.py) driving a calculator whose     *)
(* calls succeed or fail as the environment decides.                       *)
(*                                                                         *)
(* Python lists are mutable objects, so the model keeps a heap of list     *)
(* objects: `heap[r]` is the content of the list object with reference r.  *)
(* `history` is the reference held by Calculator.history and every memento *)
(* holds the reference of the list it stores.  After each operation the    *)
(* unreachable lists are dropped and the references renumbered in order of *)
(* first use (Normalize), which keeps aliasing visible and the state space *)
(* finite.                                                                 *)
(***************************************************************************)
EXTENDS Integers, Sequences, FiniteSets, TLC

VARIABLES
    heap,               \* heap[r]: content of list object r (a sequence of Calculations)
    history,            \* Calculator.history: reference of the live list
    undo_stack,         \* Calculator.undo_stack: sequence of mementos
    redo_stack,         \* Calculator.redo_stack: sequence of mementos
    observers,          \* Calculator.observers: list of observers, in attachment order
    operation_strategy, \* Calculator.operation_strategy: class of the selected Operation
    last_command_name,  \* Calculator.last_command_name
    clock,              \* datetime.now(): one tick per constructed Calculation
    last,               \* history variable: the most recent call and its outcome
    notified,           \* history variable: observers whose update ran in that call
    run,                \* history variable: the calls made since the session was empty
    serial,             \* a Calculation on its way through to_dict and from_dict
    store,              \* a CalculationHistory, and the memento its manager saved
    probe,              \* one direct call of a function of the library, and what it gave
    repl                \* calculator_repl(): where the loop stands and what it has done

vars == <<heap, history, undo_stack, redo_stack, observers, operation_strategy,
          last_command_name, clock, last, notified, run, serial, store, probe, repl>>

\* the objects that are not part of a Calculator session
Apart == <<serial, store, probe, repl>>

\* ------------------------------------------------------------------ bounds

\* config.max_history_size of the modelled session
MaxHistory == 2
\* config.max_input_value of the modelled session
MaxInputValue == 10
\* number of Calculations one session constructs
MaxClock == 3
\* number of lines one run of the REPL reads
MaxReads == 4
\* largest magnitude of an operand handed to an operation directly
MaxOperand == 3

\* ------------------------------------------------------------- vocabulary

None == "None"
Ok == "ok"
ValidationError == "ValidationError"
OperationError == "OperationError"
\* an exception that is none of the calculator's typed errors
RuntimeError == "RuntimeError"
\* raised by float pow() for a zero base and a negative exponent
ZeroDivisionError == "ZeroDivisionError"

\* a raw operand as the caller passes it: text that parses as a number, or not
Num(v) == [numeric |-> TRUE, value |-> v]
NotANumber == [numeric |-> FALSE, value |-> 0]
TooBig == Num(MaxInputValue + 1)

\* operand pairs the callers of the model pass to perform_operation
OperandPairs ==
    { <<Num(2), Num(3)>>, <<Num(5), Num(0)>>, <<NotANumber, Num(3)>>, <<Num(2), TooBig>> }

\* command names the callers of the model pass to set_operation
CommandNames == {"add", "divide", "bogus"}

\* ------------------------------------------------------------- arithmetic

Abs(x) == IF x < 0 THEN -x ELSE x

RECURSIVE Gcd(_, _)
Gcd(a, b) == IF b = 0 THEN a ELSE Gcd(b, a % b)

\* A Decimal is modelled as the fraction <<n, d>> in lowest terms, d > 0.
Dec(n) == <<n, 1>>
Frac(n, d) ==
    LET g == Gcd(Abs(n), Abs(d))
        s == IF d < 0 THEN -1 ELSE 1
    IN  <<(s * n) \div g, (s * d) \div g>>

Value(v) == [ok |-> TRUE, val |-> v, error |-> None]
Raise(e) == [ok |-> FALSE, val |-> Dec(0), error |-> e]

Addition(operand1, operand2) == Value(Dec(operand1 + operand2))
Subtraction(operand1, operand2) == Value(Dec(operand1 - operand2))
Division(operand1, operand2) ==
    IF operand2 = 0 THEN Raise(OperationError) ELSE Value(Frac(operand1, operand2))

Multiplication(operand1, operand2) == Value(Dec(operand1 * operand2))

\* base ** exponent by repeated multiplication, exponent >= 0
RECURSIVE Pow(_, _)
Pow(base, exponent) == IF exponent = 0 THEN 1 ELSE base * Pow(base, exponent - 1)

\* Decimal(pow(float(operand1), float(operand2))): exact for the integral
\* operands of the model, and pow(0.0, 0.0) is 1.0
Power(operand1, operand2) ==
    IF operand2 < 0 THEN Raise(OperationError) ELSE Value(Dec(Pow(operand1, operand2)))

\* the Decimal made from pow(float(x), 1 / float(n)): a binary approximation
\* of the real root, kept symbolic
FloatRoot(x, n, negated) == [radicand |-> x, degree |-> n, negated |-> negated]

\* float pow() raises ZeroDivisionError for 0.0 to a negative power, and
\* 1 / float(operand2) is negative exactly when operand2 is
Root(operand1, operand2) ==
    IF operand2 = 0 THEN Raise(OperationError)
    ELSE IF operand1 < 0 /\ operand2 % 2 = 0 THEN Raise(OperationError)
    ELSE IF operand1 < 0 THEN Value(FloatRoot(Abs(operand1), operand2, TRUE))
    ELSE IF operand1 = 0 /\ operand2 < 0 THEN Raise(ZeroDivisionError)
    ELSE Value(FloatRoot(operand1, operand2, FALSE))

\* mutant: the quotient rounded down, as // does on Python ints
FloorDiv(x, y) == IF y > 0 THEN x \div y ELSE (0 - x) \div (0 - y)

\* Decimal // : the quotient truncated towards zero
TruncDiv(x, y) ==
    LET q == Abs(x) \div Abs(y)
    IN  IF (x < 0) # (y < 0) THEN 0 - q ELSE q

\* Decimal % : the remainder of the truncated quotient (sign of the dividend)
Modulus(operand1, operand2) ==
    IF operand2 = 0 THEN Raise(OperationError)
    ELSE Value(Dec(operand1 - operand2 * TruncDiv(operand1, operand2)))

IntegerDivision(operand1, operand2) ==
    IF operand2 = 0 THEN Raise(OperationError)
    ELSE Value(Dec(TruncDiv(operand1, operand2)))

PercentageCalculation(operand1, operand2) ==
    IF operand2 = 0 THEN Raise(OperationError)
    ELSE Value(Frac(100 * operand1, operand2))

AbsoluteDifference(operand1, operand2) == Value(Dec(Abs(operand1 - operand2)))

\* OperationFactory._operations
Operations ==
    [ add |-> "Addition", subtract |-> "Subtraction", multiply |-> "Multiplication",
      divide |-> "Division", power |-> "Power", root |-> "Root", modulus |-> "Modulus",
      int_divide |-> "IntegerDivision", percent |-> "PercentageCalculation",
      abs_diff |-> "AbsoluteDifference" ]

\* OperationFactory.create_operation: the Operation class, or OperationError
create_operation(operation_name) ==
    IF operation_name \in DOMAIN Operations
    THEN [ok |-> TRUE, val |-> Operations[operation_name], error |-> None]
    ELSE [ok |-> FALSE, val |-> None, error |-> OperationError]

\* Operation.execute, dispatched on the class
execute(op, operand1, operand2) ==
    CASE op = "Addition" -> Addition(operand1, operand2)
      [] op = "Subtraction" -> Subtraction(operand1, operand2)
      [] op = "Multiplication" -> Multiplication(operand1, operand2)
      [] op = "Division" -> Division(operand1, operand2)
      [] op = "Power" -> Power(operand1, operand2)
      [] op = "Root" -> Root(operand1, operand2)
      [] op = "Modulus" -> Modulus(operand1, operand2)
      [] op = "IntegerDivision" -> IntegerDivision(operand1, operand2)
      [] op = "PercentageCalculation" -> PercentageCalculation(operand1, operand2)
      [] op = "AbsoluteDifference" -> AbsoluteDifference(operand1, operand2)

\* Calculation.__init__ / __post_init__ / calculate: the record, given that
\* the operation is registered and accepts the operands
Calculation(operation_name, operand1, operand2, now) ==
    [ operation_name |-> operation_name,
      operand1 |-> operand1,
      operand2 |-> operand2,
      result |-> execute(create_operation(operation_name).val, operand1, operand2).val,
      timestamp |-> now ]

\* mutant: the limit itself is out of range
validate_number_below(a) ==
    IF ~a.numeric THEN [ok |-> FALSE, val |-> 0, error |-> ValidationError]
    ELSE IF Abs(a.value) >= MaxInputValue
         THEN [ok |-> FALSE, val |-> 0, error |-> ValidationError]
         ELSE [ok |-> TRUE, val |-> a.value, error |-> None]

\* InputValidator.validate_number: ValidationError unless numeric and in range
validate_number(a) ==
    IF ~a.numeric THEN [ok |-> FALSE, val |-> 0, error |-> ValidationError]
    ELSE IF Abs(a.value) > MaxInputValue
         THEN [ok |-> FALSE, val |-> 0, error |-> ValidationError]
         ELSE [ok |-> TRUE, val |-> a.value, error |-> None]

\* ------------------------------------------------------------ list objects

\* the reference a list object allocated next will get
NewRef(hp) == Len(hp) + 1

\* list.copy() / list[:]: a new list object with the same elements
ListCopy(hp, r) == Append(hp, hp[r])

\* a new list object with the given elements
ListNew(hp, elems) == Append(hp, elems)

\* CalculatorMemento(history_state): the memento stores a copy of the list it
\* is given (history_state[:]); `captured` is a history field recording what
\* the list held when the memento was made
CalculatorMemento(hp, r) ==
    [heap |-> ListCopy(hp, r), memento |-> [ref |-> NewRef(hp), captured |-> hp[r]]]

\* mutant: the accessor hands out the stored list itself
get_history_state_alias(hp, memento) == [heap |-> hp, ref |-> memento.ref]

\* CalculatorMemento.get_history_state: a copy of the stored list
get_history_state(hp, memento) == [heap |-> ListCopy(hp, memento.ref), ref |-> NewRef(hp)]

\* get_history: a copy of the live list
get_history(hp, r) == [heap |-> ListCopy(hp, r), ref |-> NewRef(hp)]

StackRefs(stack) == [i \in 1..Len(stack) |-> stack[i].ref]

RECURSIVE Dedup(_)
Dedup(s) ==
    IF s = <<>> THEN <<>>
    ELSE LET d == Dedup(SubSeq(s, 1, Len(s) - 1))
             x == s[Len(s)]
         IN  IF \E i \in 1..Len(d) : d[i] = x THEN d ELSE Append(d, x)

IndexOf(d, x) == CHOOSE i \in 1..Len(d) : d[i] = x

\* Garbage collection: keep the lists reachable from the session and number
\* them in order of first use (history, undo stack, redo stack).
Normalize(hp, hist, us, rs) ==
    LET order == Dedup(<<hist>> \o StackRefs(us) \o StackRefs(rs))
        ren(m) == [m EXCEPT !.ref = IndexOf(order, m.ref)]
    IN  [ heap |-> [i \in 1..Len(order) |-> hp[order[i]]],
          history |-> IndexOf(order, hist),
          undo_stack |-> [i \in 1..Len(us) |-> ren(us[i])],
          redo_stack |-> [i \in 1..Len(rs) |-> ren(rs[i])] ]

Commit(hp, hist, us, rs) ==
    LET s == Normalize(hp, hist, us, rs)
    IN  /\ heap' = s.heap
        /\ history' = s.history
        /\ undo_stack' = s.undo_stack
        /\ redo_stack' = s.redo_stack

\* the contents the session holds, by value
HistoryList == heap[history]
Contents(stack) == [i \in 1..Len(stack) |-> heap[stack[i].ref]]

\* ------------------------------------------------------------------- texts

\* the decimal digits of a natural number, most significant first
RECURSIVE Digits(_)
Digits(n) == IF n < 10 THEN <<n>> ELSE Append(Digits(n \div 10), n % 10)

\* the natural number a sequence of digits writes
RECURSIVE FromDigits(_)
FromDigits(ds) ==
    IF ds = <<>> THEN 0 ELSE 10 * FromDigits(SubSeq(ds, 1, Len(ds) - 1)) + ds[Len(ds)]

\* mutant: the text of a number without its sign
StrUnsigned(n) == [negative |-> FALSE, digits |-> Digits(Abs(n))]

\* str(operand): the text of an integral Decimal, a sign and digits
Str(n) == [negative |-> n < 0, digits |-> Digits(Abs(n))]

\* Decimal(text) of such a text
ParseInt(text) ==
    IF text.negative THEN -FromDigits(text.digits) ELSE FromDigits(text.digits)

\* str(result): the text of a Decimal result, here of its fraction
StrResult(r) == [numerator |-> Str(r[1]), denominator |-> Str(r[2])]

\* timestamp.isoformat() and datetime.fromisoformat(text)
isoformat(t) == Str(t)
fromisoformat(text) == ParseInt(text)

\* Decimal(value) for a value of a row: a number pandas parsed, a text
\* to_dict wrote, or something that is no number (InvalidOperation)
ToDecimal(x) ==
    IF "digits" \in DOMAIN x THEN [ok |-> TRUE, val |-> ParseInt(x)]
    ELSE IF x.numeric THEN [ok |-> TRUE, val |-> x.value]
    ELSE [ok |-> FALSE, val |-> 0]

\* ------------------------------------------------------------ history file

\* one row of the CSV history file as a pandas row: the fields of
\* Calculation.to_dict, operands still to be parsed
Row(operation, operand1, operand2, result, timestamp) ==
    [ operation |-> operation, operand1 |-> operand1, operand2 |-> operand2,
      result |-> result, timestamp |-> timestamp ]

\* rows written by an earlier session (timestamps before this session's clock)
SavedRow(i) == Row("add", Num(i), Num(1), Dec(i + 1), isoformat(i - (MaxHistory + 2)))
SavedRows(n) == [i \in 1..n |-> SavedRow(i)]

NoFile == [exists |-> FALSE, readable |-> TRUE, rows |-> <<>>]
FileOf(rows) == [exists |-> TRUE, readable |-> TRUE, rows |-> rows]
UnreadableFile == [exists |-> TRUE, readable |-> FALSE, rows |-> <<>>]
CorruptFile == FileOf(<<SavedRow(1), Row("bogus", Num(1), Num(1), Dec(2), isoformat(0))>>)

\* the file of one row whose stored result is not the result of its operation
TamperedFile == FileOf(<<[SavedRow(1) EXCEPT !.result = Dec(10)]>>)

\* the history files the model lets the session find on disk
Files ==
    { NoFile, FileOf(<<>>), FileOf(SavedRows(1)), FileOf(SavedRows(MaxHistory + 1)),
      CorruptFile, UnreadableFile, TamperedFile }

\* Calculation.from_dict: the Calculation of a row (result recomputed,
\* timestamp taken from the row), or OperationError
from_dict(data) ==
    LET op == create_operation(data.operation)
    IN  IF ~op.ok THEN [ok |-> FALSE, error |-> OperationError]
        ELSE IF ~ToDecimal(data.operand1).ok \/ ~ToDecimal(data.operand2).ok
             THEN [ok |-> FALSE, error |-> OperationError]
        ELSE IF ~execute(op.val, ToDecimal(data.operand1).val, ToDecimal(data.operand2).val).ok
             THEN [ok |-> FALSE, error |-> OperationError]
        ELSE [ok |-> TRUE, error |-> None]

\* mutant: from_dict keeps the result stored in the row
from_dict_trusting(data) ==
    [ operation_name |-> data.operation,
      operand1 |-> ToDecimal(data.operand1).val,
      operand2 |-> ToDecimal(data.operand2).val,
      result |-> data.result,
      timestamp |-> fromisoformat(data.timestamp) ]

from_dict_value(data) ==
    Calculation(data.operation, ToDecimal(data.operand1).val, ToDecimal(data.operand2).val,
                fromisoformat(data.timestamp))

\* Calculation.to_dict
to_dict(calculation) ==
    Row(calculation.operation_name, Str(calculation.operand1), Str(calculation.operand2),
        StrResult(calculation.result), isoformat(calculation.timestamp))

\* ---------------------------------------------------------------- observers

\* the observers the front end registers: LoggingObserver, AutoSaveObserver
Observers == {"LoggingObserver", "AutoSaveObserver"}

\* observers of a client of the library: one that logs, and one whose update
\* fails with an exception of its own
ClientObservers == {"LoggingObserver", "RaisingObserver"}

\* config.auto_save
auto_save == TRUE

\* Calculator.save_history: writes the file, or OperationError when the write fails
save_history(io_ok) == IF io_ok THEN Ok ELSE OperationError

\* observer.update(calculation): LoggingObserver logs; AutoSaveObserver saves
\* the history when config.auto_save is set
update(observer, io_ok) ==
    IF observer = "AutoSaveObserver" /\ auto_save THEN save_history(io_ok)
    ELSE IF observer = "RaisingObserver" THEN RuntimeError
    ELSE Ok

\* mutant: the observers are updated newest first
RECURSIVE notify_newest_first(_, _)
notify_newest_first(obs, io_ok) ==
    IF obs = <<>> THEN [called |-> <<>>, outcome |-> Ok]
    ELSE LET n == Len(obs)
             r == update(obs[n], io_ok)
         IN  IF r # Ok THEN [called |-> <<obs[n]>>, outcome |-> r]
             ELSE LET rest == notify_newest_first(SubSeq(obs, 1, n - 1), io_ok)
                  IN  [called |-> <<obs[n]>> \o rest.called, outcome |-> rest.outcome]

\* the kinds of object an update can be handed as subject
SubjectTypes == {"Calculator", "Calculation", "str"}

\* mutant: the auto-save does not look at the subject
AutoSaveAnySubject(enabled, subject) == IF enabled THEN 1 ELSE 0

\* AutoSaveObserver.update(subject) of app/autosave_observer.py: the number of
\* subject.save_history() calls it makes
AutoSaveObserver_update(enabled, subject) ==
    IF ~enabled THEN 0
    ELSE IF subject = "Calculator" THEN 1
    ELSE 0

\* the object notify_observers hands to update: observer.update(calculation)
UpdateArgument == "Calculation"

\* Calculator.notify_observers: update each observer in list order; an
\* exception raised by an update ends the loop and propagates
RECURSIVE notify_observers(_, _)
notify_observers(obs, io_ok) ==
    IF obs = <<>> THEN [called |-> <<>>, outcome |-> Ok]
    ELSE LET r == update(Head(obs), io_ok)
         IN  IF r # Ok THEN [called |-> <<Head(obs)>>, outcome |-> r]
             ELSE LET rest == notify_observers(Tail(obs), io_ok)
                  IN  [called |-> <<Head(obs)>> \o rest.called, outcome |-> rest.outcome]

\* ------------------------------------------------------- history variables

\* `last`: the call made last and its outcome (Ok, "False" for a call that
\* returned False, or the exception raised).  For perform_operation it keeps
\* the operands passed and the depth of the redo stack before the call; for a
\* performed operation, a successful undo and a load_history the history
\* before the call (for load_history the depth of the redo stack as well); for redo whether the call
\* before it was a successful undo, and then the history before that undo.
\* Further: the exception an observer raised during the call (None if
\* none did), the rows of the file a load_history read, and what the session
\* held at the moment perform_operation called notify_observers, with the
\* kind of object the observers were handed as subject.  arg is the observer
\* or command name passed to add_observer, remove_observer and set_operation,
\* and for load_history the kind of file it found;
\* returned is what undo and redo hand back: a bool, never a record.
NotSeen ==
    [ history |-> <<>>, redo_stack |-> <<>>, calculation |-> Calculation("add", 0, 0, 0),
      subject |-> None ]
Call(op, outcome) ==
    [ op |-> op, outcome |-> outcome, a |-> NotANumber, b |-> NotANumber,
      redo_before |-> 0, before |-> <<>>, after_undo |-> FALSE,
      raised |-> None, rows |-> <<>>, seen |-> NotSeen, arg |-> None,
      returned |-> [ kind |-> IF op \in {"undo", "redo"} THEN "bool" ELSE None,
                     record |-> NotSeen.calculation ] ]

\* `run`: valid while the session, empty at first, has only performed
\* operations and then undone/redone some of them; recs are the Calculations
\* performed, undone counts the undos not redone
EmptyRun == [valid |-> TRUE, recs |-> <<>>, undone |-> 0]
NoRun == [valid |-> FALSE, recs |-> <<>>, undone |-> 0]

RunAfterPerform(calc) ==
    IF run.valid /\ run.undone = 0
    THEN [run EXCEPT !.recs = Append(@, calc)]
    ELSE NoRun
RunAfterUndo == IF run.valid THEN [run EXCEPT !.undone = @ + 1] ELSE NoRun
RunAfterRedo == IF run.valid THEN [run EXCEPT !.undone = @ - 1] ELSE NoRun

Session == <<heap, history, undo_stack, redo_stack>>
Selection == <<operation_strategy, last_command_name>>

\* ----------------------------------------------------------- the Calculator

\* mutant: add_observer appends without looking for the observer
AddObserverAlways(observer) ==
    /\ Len(observers) < 3
    /\ observers' = Append(observers, observer)
    /\ last' = [Call("add_observer", Ok) EXCEPT !.arg = observer]
    /\ notified' = <<>>
    /\ UNCHANGED <<Apart, Session, Selection, clock, run>>

\* Calculator.add_observer
AddObserver(observer) ==
    /\ observers' = IF \E i \in 1..Len(observers) : observers[i] = observer
                    THEN observers
                    ELSE Append(observers, observer)
    /\ last' = [Call("add_observer", Ok) EXCEPT !.arg = observer]
    /\ notified' = <<>>
    /\ UNCHANGED <<Apart, Session, Selection, clock, run>>

\* list.remove(x): the list without the first occurrence of x
RECURSIVE Remove(_, _)
Remove(lst, x) ==
    IF lst = <<>> THEN <<>>
    ELSE IF Head(lst) = x THEN Tail(lst)
    ELSE <<Head(lst)>> \o Remove(Tail(lst), x)

\* Calculator.remove_observer (an absent observer is logged, not an error)
RemoveObserver(observer) ==
    /\ observers' = Remove(observers, observer)
    /\ last' = [Call("remove_observer", Ok) EXCEPT !.arg = observer]
    /\ notified' = <<>>
    /\ UNCHANGED <<Apart, Session, Selection, clock, run>>

\* mutant: a failed set_operation leaves the calculator without a selection
SetOperationForgets(command_name) ==
    LET op == create_operation(command_name)
    IN  /\ IF op.ok
           THEN /\ operation_strategy' = op.val
                /\ last_command_name' = command_name
           ELSE /\ operation_strategy' = None
                /\ last_command_name' = None
        /\ last' = [Call("set_operation", IF op.ok THEN Ok ELSE op.error) EXCEPT
                        !.arg = command_name]
        /\ notified' = <<>>
        /\ UNCHANGED <<Apart, Session, observers, clock, run>>

\* Calculator.set_operation
SetOperation(command_name) ==
    LET op == create_operation(command_name)
    IN  /\ IF op.ok
           THEN /\ operation_strategy' = op.val
                /\ last_command_name' = command_name
           ELSE UNCHANGED Selection
        /\ last' = [Call("set_operation", IF op.ok THEN Ok ELSE op.error) EXCEPT
                        !.arg = command_name]
        /\ notified' = <<>>
        /\ UNCHANGED <<Apart, Session, observers, clock, run>>

\* mutant: an exception raised inside perform_operation reaches the caller as it is
Propagate(e) == e

\* the except clauses of perform_operation: ValidationError and
\* OperationError are re-raised, any other exception becomes OperationError
Reraise(e) == IF e \in {ValidationError, OperationError} THEN e ELSE OperationError

\* mutant: the operation is not executed before the history is changed
PerformCheckOperandsOnly(a, b) ==
    IF operation_strategy = None \/ last_command_name = None THEN OperationError
    ELSE IF ~validate_number(a).ok THEN validate_number(a).error
    ELSE IF ~validate_number(b).ok THEN validate_number(b).error
    ELSE Ok

\* perform_operation up to the construction of the Calculation: the
\* exception raised, or Ok
PerformCheck(a, b) ==
    IF operation_strategy = None \/ last_command_name = None THEN OperationError
    ELSE IF ~validate_number(a).ok THEN validate_number(a).error
    ELSE IF ~validate_number(b).ok THEN validate_number(b).error
    ELSE IF ~execute(operation_strategy, validate_number(a).val, validate_number(b).val).ok
         THEN Reraise(execute(operation_strategy, validate_number(a).val,
                              validate_number(b).val).error)
    ELSE Ok

\* CalculatorMemento(self.history.copy()): the heap with the copy, and the memento
Snapshot(hp, r) == CalculatorMemento(ListCopy(hp, r), NewRef(hp))

\* mutant: perform_operation keeps the redo stack
RedoKept(rs) == rs

\* self.redo_stack.clear() of perform_operation
RedoAfterOperation(rs) == <<>>

\* mutant: the eviction pops the newest record (pop() for pop(0))
AppendAndTrimNewest(lst, calculation) ==
    IF Len(Append(lst, calculation)) > MaxHistory
    THEN lst
    ELSE Append(lst, calculation)

\* self.history.append(calculation), then one pop(0) if over max_history_size
AppendAndTrim(lst, calculation) ==
    IF Len(Append(lst, calculation)) > MaxHistory
    THEN Tail(Append(lst, calculation))
    ELSE Append(lst, calculation)

\* Calculator.perform_operation
PerformOperation(a, b, io_ok) ==
    /\ clock < MaxClock
    /\ IF PerformCheck(a, b) # Ok
       THEN /\ last' = [Call("perform_operation", PerformCheck(a, b)) EXCEPT
                            !.a = a, !.b = b, !.redo_before = Len(redo_stack)]
            /\ notified' = <<>>
            /\ UNCHANGED <<Apart, Session, observers, Selection, clock, run>>
       ELSE LET calculation == Calculation(last_command_name, validate_number(a).val,
                                           validate_number(b).val, clock + 1)
                snap == Snapshot(heap, history)
                hp == [snap.heap EXCEPT ![history] = AppendAndTrim(@, calculation)]
                note == notify_observers(observers, io_ok)
            IN  /\ Commit(hp, history, Append(undo_stack, snap.memento),
                          RedoAfterOperation(redo_stack))
                /\ clock' = clock + 1
                /\ last' = [Call("perform_operation",
                                  IF note.outcome = Ok THEN Ok ELSE Reraise(note.outcome))
                             EXCEPT
                                !.a = a, !.b = b, !.redo_before = Len(redo_stack),
                                !.before = HistoryList,
                                !.raised = IF note.outcome = Ok THEN None ELSE note.outcome,
                                !.seen = IF note.called = <<>> THEN NotSeen
                                         ELSE [history |-> hp[history],
                                               redo_stack |-> RedoAfterOperation(redo_stack),
                                               calculation |-> calculation,
                                               subject |-> UpdateArgument]]
                /\ notified' = note.called
                /\ run' = RunAfterPerform(calculation)
                /\ UNCHANGED <<Apart, observers, Selection>>

\* Calculator.save_history
SaveHistory(io_ok) ==
    /\ last' = Call("save_history", save_history(io_ok))
    /\ notified' = <<>>
    /\ UNCHANGED <<Apart, Session, observers, Selection, clock, run>>

\* mutant: load_history clears the stacks before it reads the file
LoadedClearsFirst(hp, hist, us, rs, file) ==
    IF ~file.exists \/ (file.readable /\ file.rows = <<>>)
    THEN [heap |-> ListNew(hp, <<>>), history |-> NewRef(hp), undo_stack |-> <<>>,
          redo_stack |-> <<>>, outcome |-> Ok]
    ELSE IF ~file.readable \/ \E i \in 1..Len(file.rows) : ~from_dict(file.rows[i]).ok
    THEN [heap |-> hp, history |-> hist, undo_stack |-> <<>>, redo_stack |-> <<>>,
          outcome |-> OperationError]
    ELSE LET rows == [i \in 1..Len(file.rows) |-> from_dict_value(file.rows[i])]
             h1 == ListNew(hp, rows)
             snap == Snapshot(h1, NewRef(hp))
         IN  [heap |-> snap.heap, history |-> NewRef(hp), undo_stack |-> <<snap.memento>>,
              redo_stack |-> <<>>, outcome |-> Ok]

\* mutant: without a file load_history returns and leaves the session alone
LoadedKeepsWithoutFile(hp, hist, us, rs, file) ==
    IF ~file.exists
    THEN [heap |-> hp, history |-> hist, undo_stack |-> us, redo_stack |-> rs, outcome |-> Ok]
    ELSE IF file.readable /\ file.rows = <<>>
    THEN [heap |-> ListNew(hp, <<>>), history |-> NewRef(hp), undo_stack |-> <<>>,
          redo_stack |-> <<>>, outcome |-> Ok]
    ELSE IF ~file.readable \/ \E i \in 1..Len(file.rows) : ~from_dict(file.rows[i]).ok
    THEN [heap |-> hp, history |-> hist, undo_stack |-> us, redo_stack |-> rs,
          outcome |-> OperationError]
    ELSE LET rows == [i \in 1..Len(file.rows) |-> from_dict_value(file.rows[i])]
             h1 == ListNew(hp, rows)
             snap == Snapshot(h1, NewRef(hp))
         IN  [heap |-> snap.heap, history |-> NewRef(hp), undo_stack |-> <<snap.memento>>,
              redo_stack |-> <<>>, outcome |-> Ok]

\* mutant: load_history pushes its snapshot on the undo stack it finds
LoadedKeepsUndo(hp, hist, us, rs, file) ==
    IF ~file.exists \/ (file.readable /\ file.rows = <<>>)
    THEN [heap |-> ListNew(hp, <<>>), history |-> NewRef(hp), undo_stack |-> <<>>,
          redo_stack |-> <<>>, outcome |-> Ok]
    ELSE IF ~file.readable \/ \E i \in 1..Len(file.rows) : ~from_dict(file.rows[i]).ok
    THEN [heap |-> hp, history |-> hist, undo_stack |-> us, redo_stack |-> rs,
          outcome |-> OperationError]
    ELSE LET rows == [i \in 1..Len(file.rows) |-> from_dict_value(file.rows[i])]
             h1 == ListNew(hp, rows)
             snap == Snapshot(h1, NewRef(hp))
         IN  [heap |-> snap.heap, history |-> NewRef(hp),
              undo_stack |-> Append(us, snap.memento),
              redo_stack |-> <<>>, outcome |-> Ok]

\* the session that load_history leaves: [heap, history, undo_stack,
\* redo_stack, outcome]
Loaded(hp, hist, us, rs, file) ==
    IF ~file.exists \/ (file.readable /\ file.rows = <<>>)
    THEN [heap |-> ListNew(hp, <<>>), history |-> NewRef(hp), undo_stack |-> <<>>,
          redo_stack |-> <<>>, outcome |-> Ok]
    ELSE IF ~file.readable \/ \E i \in 1..Len(file.rows) : ~from_dict(file.rows[i]).ok
    THEN [heap |-> hp, history |-> hist, undo_stack |-> us, redo_stack |-> rs,
          outcome |-> OperationError]
    ELSE LET rows == [i \in 1..Len(file.rows) |-> from_dict_value(file.rows[i])]
             h1 == ListNew(hp, rows)
             snap == Snapshot(h1, NewRef(hp))
         IN  [heap |-> snap.heap, history |-> NewRef(hp), undo_stack |-> <<snap.memento>>,
              redo_stack |-> <<>>, outcome |-> Ok]

\* what load_history finds on disk: no file, a file it cannot read, a file
\* without rows, a file with a row from_dict refuses, or a file of good rows
FileKind(file) ==
    IF ~file.exists THEN "missing"
    ELSE IF ~file.readable THEN "unreadable"
    ELSE IF file.rows = <<>> THEN "empty"
    ELSE IF \E i \in 1..Len(file.rows) : ~from_dict(file.rows[i]).ok THEN "unparsable"
    ELSE "rows"

RunAfterLoad(s) ==
    IF s.outcome # Ok THEN run
    ELSE IF s.heap[s.history] = <<>> THEN EmptyRun ELSE NoRun

\* Calculator.load_history
LoadHistory(file) ==
    LET s == Loaded(heap, history, undo_stack, redo_stack, file)
    IN  /\ Commit(s.heap, s.history, s.undo_stack, s.redo_stack)
        /\ last' = [Call("load_history", s.outcome) EXCEPT
                        !.rows = IF s.outcome = Ok THEN file.rows ELSE <<>>,
                        !.arg = FileKind(file),
                        !.before = HistoryList, !.redo_before = Len(redo_stack)]
        /\ notified' = <<>>
        /\ run' = RunAfterLoad(s)
        /\ UNCHANGED <<Apart, observers, Selection, clock>>

\* mutant: clear_history empties the history and keeps the two stacks
ClearHistoryListOnly ==
    /\ Commit([heap EXCEPT ![history] = <<>>], history, undo_stack, redo_stack)
    /\ last' = [Call("clear_history", Ok) EXCEPT
                    !.before = HistoryList, !.redo_before = Len(redo_stack)]
    /\ notified' = <<>>
    /\ run' = NoRun
    /\ UNCHANGED <<Apart, observers, Selection, clock>>

\* Calculator.clear_history
ClearHistory ==
    /\ Commit([heap EXCEPT ![history] = <<>>], history, <<>>, <<>>)
    /\ last' = [Call("clear_history", Ok) EXCEPT
                    !.before = HistoryList, !.redo_before = Len(redo_stack)]
    /\ notified' = <<>>
    /\ run' = EmptyRun
    /\ UNCHANGED <<Apart, observers, Selection, clock>>

\* mutant: redo restores the live history instead of the memento popped
RestoreCurrent(hp, hist, memento) == [heap |-> ListCopy(hp, hist), history |-> NewRef(hp)]

\* mutant: undo needs a snapshot below the one it pops
NothingToUndoBelowTwo(us) == Len(us) < 2

\* `if not self.undo_stack` of undo
NothingToUndo(us) == us = <<>>

\* self.history = memento.history.copy()
Restore(hp, memento) == [heap |-> ListCopy(hp, memento.ref), history |-> NewRef(hp)]

\* mutant: an undo() that finds nothing to undo drops the redo stack
UndoForgetsRedo ==
    IF NothingToUndo(undo_stack)
    THEN /\ Commit(heap, history, undo_stack, <<>>)
         /\ last' = Call("undo", "False")
         /\ notified' = <<>>
         /\ run' = NoRun
         /\ UNCHANGED <<Apart, observers, Selection, clock>>
    ELSE LET snap == Snapshot(heap, history)
             memento == undo_stack[Len(undo_stack)]
             back == Restore(snap.heap, memento)
         IN  /\ Commit(back.heap, back.history, SubSeq(undo_stack, 1, Len(undo_stack) - 1),
                       Append(redo_stack, snap.memento))
             /\ last' = [Call("undo", Ok) EXCEPT !.before = HistoryList]
             /\ notified' = <<>>
             /\ run' = RunAfterUndo
             /\ UNCHANGED <<Apart, observers, Selection, clock>>

\* Calculator.undo
Undo ==
    IF NothingToUndo(undo_stack)
    THEN /\ last' = Call("undo", "False")
         /\ notified' = <<>>
         /\ UNCHANGED <<Apart, Session, observers, Selection, clock, run>>
    ELSE LET snap == Snapshot(heap, history)
             memento == undo_stack[Len(undo_stack)]
             back == Restore(snap.heap, memento)
         IN  /\ Commit(back.heap, back.history, SubSeq(undo_stack, 1, Len(undo_stack) - 1),
                       Append(redo_stack, snap.memento))
             /\ last' = [Call("undo", Ok) EXCEPT !.before = HistoryList]
             /\ notified' = <<>>
             /\ run' = RunAfterUndo
             /\ UNCHANGED <<Apart, observers, Selection, clock>>

\* memento = self.redo_stack.pop(); self.history = memento.history.copy()
RedoRestore(hp, hist, memento) == Restore(hp, memento)

\* mutant: redo reads the top of the redo stack and leaves it there
RedoKeepsMemento ==
    IF redo_stack = <<>>
    THEN /\ last' = Call("redo", "False")
         /\ notified' = <<>>
         /\ UNCHANGED <<Apart, Session, observers, Selection, clock, run>>
    ELSE LET snap == Snapshot(heap, history)
             memento == redo_stack[Len(redo_stack)]
             back == RedoRestore(snap.heap, history, memento)
         IN  /\ Len(undo_stack) < MaxClock
             /\ Commit(back.heap, back.history, Append(undo_stack, snap.memento), redo_stack)
             /\ last' = [Call("redo", Ok) EXCEPT
                             !.after_undo = (last.op = "undo" /\ last.outcome = Ok),
                             !.before = IF last.op = "undo" /\ last.outcome = Ok
                                        THEN last.before ELSE <<>>]
             /\ notified' = <<>>
             /\ run' = RunAfterRedo
             /\ UNCHANGED <<Apart, observers, Selection, clock>>

\* Calculator.redo
Redo ==
    IF redo_stack = <<>>
    THEN /\ last' = Call("redo", "False")
         /\ notified' = <<>>
         /\ UNCHANGED <<Apart, Session, observers, Selection, clock, run>>
    ELSE LET snap == Snapshot(heap, history)
             memento == redo_stack[Len(redo_stack)]
             back == RedoRestore(snap.heap, history, memento)
         IN  /\ Commit(back.heap, back.history, Append(undo_stack, snap.memento),
                       SubSeq(redo_stack, 1, Len(redo_stack) - 1))
             /\ last' = [Call("redo", Ok) EXCEPT
                             !.after_undo = (last.op = "undo" /\ last.outcome = Ok),
                             !.before = IF last.op = "undo" /\ last.outcome = Ok
                                        THEN last.before ELSE <<>>]
             /\ notified' = <<>>
             /\ run' = RunAfterRedo
             /\ UNCHANGED <<Apart, observers, Selection, clock>>

\* a caller appends to a list it got from an accessor
JunkRecord == Calculation("add", 0, 0, 0)

\* a caller mutates the list returned by get_history()
MutateReturnedHistory ==
    LET got == get_history(heap, history)
    IN  /\ Commit([got.heap EXCEPT ![got.ref] = Append(@, JunkRecord)], history,
                  undo_stack, redo_stack)
        /\ last' = Call("get_history", Ok)
        /\ notified' = <<>>
        /\ UNCHANGED <<Apart, observers, Selection, clock, run>>

\* a caller mutates the list returned by a memento's get_history_state()
MutateReturnedState ==
    \E m \in {undo_stack[i] : i \in 1..Len(undo_stack)}
              \cup {redo_stack[i] : i \in 1..Len(redo_stack)} :
        LET got == get_history_state(heap, m)
        IN  /\ Commit([got.heap EXCEPT ![got.ref] = Append(@, JunkRecord)], history,
                      undo_stack, redo_stack)
            /\ last' = Call("get_history_state", Ok)
            /\ notified' = <<>>
            /\ UNCHANGED <<Apart, observers, Selection, clock, run>>

\* Calculator.__init__: empty session, then load_history() of the file on
\* disk (a failure to load is logged and the session stays empty)
Start(file) ==
    LET s == Loaded(<<<<>>>>, 1, <<>>, <<>>, file)
        n == Normalize(s.heap, s.history, s.undo_stack, s.redo_stack)
    IN  /\ heap = n.heap
        /\ history = n.history
        /\ undo_stack = n.undo_stack
        /\ redo_stack = n.redo_stack
        /\ observers = <<>>
        /\ operation_strategy = None
        /\ last_command_name = None
        /\ clock = 0
        /\ last = Call("__init__", Ok)
        /\ notified = <<>>
        /\ run = IF n.heap[n.history] = <<>> THEN EmptyRun ELSE NoRun

\* ------------------------------------------- a Calculation through a dict

\* the operands and instants of the Calculations serialized
Operands == (0 - MaxInputValue)..MaxInputValue
Instants == {0 - 1, 0, 10 * MaxClock}

\* the operations of the Calculations the model serializes
SerializedOperations == {"add", "subtract", "divide"}

\* the Calculations that can be constructed
ValidCalculations ==
    { Calculation(name, a, b, t) :
        name \in SerializedOperations, a \in Operands,
        b \in Operands, t \in Instants }
    \ { Calculation("divide", a, 0, t) : a \in Operands, t \in Instants }

NoCalculation == Calculation("add", 0, 0, 0)
NoSerial ==
    [ stage |-> "none", calculation |-> NoCalculation, data |-> to_dict(NoCalculation),
      back |-> [ok |-> FALSE, value |-> NoCalculation] ]

CalculatorVars == <<Session, observers, Selection, clock, last, notified, run>>

\* data = c.to_dict()
ToDict ==
    /\ serial.stage = "made"
    /\ serial' = [serial EXCEPT !.stage = "dumped", !.data = to_dict(serial.calculation)]
    /\ UNCHANGED <<CalculatorVars, store, probe, repl>>

\* Calculation.from_dict(data): the Calculation, or OperationError
FromDict ==
    /\ serial.stage = "dumped"
    /\ serial' = [serial EXCEPT
                     !.stage = "parsed",
                     !.back = IF from_dict(serial.data).ok
                              THEN [ok |-> TRUE, value |-> from_dict_value(serial.data)]
                              ELSE [ok |-> FALSE, value |-> NoCalculation]]
    /\ UNCHANGED <<CalculatorVars, store, probe, repl>>

\* --------------------------------- CalculationHistory and its memento manager

\* the Calculations the client of a CalculationHistory adds
StoreCalculations == {Calculation("add", 1, 1, 0), Calculation("subtract", 5, 2, 0)}

\* what a method of CalculationHistory hands back: None, or a Calculation
ReturnedNone == [kind |-> None, record |-> Calculation("add", 0, 0, 0)]
ReturnedRecord(calculation) == [kind |-> "record", record |-> calculation]

\* CalculationHistory.__init__: two empty lists; no memento saved yet
EmptyStore ==
    [ heap |-> <<<<>>, <<>>>>, history |-> 1, redo_stack |-> 2, saved |-> <<>>,
      call |-> "__init__", before |-> <<>>, returned |-> ReturnedNone ]

\* the store after a call: unreachable lists dropped, references renumbered
StoreAfter(hp, hist, redo, saved, call) ==
    LET n == Normalize(hp, hist, saved, <<[ref |-> redo]>>)
    IN  [ heap |-> n.heap, history |-> n.history, redo_stack |-> n.redo_stack[1].ref,
          saved |-> n.undo_stack, call |-> call, before |-> store.heap[store.history],
          returned |-> ReturnedNone ]

\* mutant: the eviction stops one record above the bound
RECURSIVE EvictLate(_)
EvictLate(lst) == IF Len(lst) > MaxHistory + 1 THEN EvictLate(Tail(lst)) ELSE lst

\* while len(self._history) > MAX_HISTORY_SIZE: self._history.pop(0)
RECURSIVE Evict(_)
Evict(lst) == IF Len(lst) > MaxHistory THEN Evict(Tail(lst)) ELSE lst

\* CalculationHistory.add_calculation
AddCalculation(calculation) ==
    /\ store' = StoreAfter([store.heap EXCEPT
                                ![store.history] = Evict(Append(@, calculation)),
                                ![store.redo_stack] = <<>>],
                           store.history, store.redo_stack, store.saved, "add_calculation")
    /\ UNCHANGED <<CalculatorVars, serial, probe, repl>>

\* CalculationHistory.clear_history
HistoryClear ==
    /\ store' = StoreAfter([store.heap EXCEPT ![store.history] = <<>>,
                                              ![store.redo_stack] = <<>>],
                           store.history, store.redo_stack, store.saved, "clear_history")
    /\ UNCHANGED <<CalculatorVars, serial, probe, repl>>

\* mutant: undo drops the record instead of keeping it for redo
HistoryUndoDrops ==
    LET h == store.heap[store.history]
    IN  /\ store' = IF h = <<>>
                    THEN [store EXCEPT !.call = "undo", !.before = h,
                                       !.returned = ReturnedNone]
                    ELSE [StoreAfter([store.heap EXCEPT
                                         ![store.history] = SubSeq(h, 1, Len(h) - 1)],
                                     store.history, store.redo_stack, store.saved, "undo")
                            EXCEPT !.returned = ReturnedRecord(h[Len(h)])]
        /\ UNCHANGED <<CalculatorVars, serial, probe, repl>>

\* CalculationHistory.undo: the last record moves to the redo stack
HistoryUndo ==
    LET h == store.heap[store.history]
    IN  /\ store' = IF h = <<>>
                    THEN [store EXCEPT !.call = "undo", !.before = h,
                                       !.returned = ReturnedNone]
                    ELSE [StoreAfter([store.heap EXCEPT
                                         ![store.history] = SubSeq(h, 1, Len(h) - 1),
                                         ![store.redo_stack] = Append(@, h[Len(h)])],
                                     store.history, store.redo_stack, store.saved, "undo")
                            EXCEPT !.returned = ReturnedRecord(h[Len(h)])]
        /\ UNCHANGED <<CalculatorVars, serial, probe, repl>>

\* CalculationHistory.redo: the last undone record moves back
HistoryRedo ==
    LET r == store.heap[store.redo_stack]
    IN  /\ store' = IF r = <<>>
                    THEN [store EXCEPT !.call = "redo", !.before = store.heap[store.history],
                                       !.returned = ReturnedNone]
                    ELSE [StoreAfter([store.heap EXCEPT
                                         ![store.redo_stack] = SubSeq(r, 1, Len(r) - 1),
                                         ![store.history] = Append(@, r[Len(r)])],
                                     store.history, store.redo_stack, store.saved, "redo")
                            EXCEPT !.returned = ReturnedRecord(r[Len(r)])]
        /\ UNCHANGED <<CalculatorVars, serial, probe, repl>>

\* CalculatorMemento.get_redo_stack_state: a copy of the stored redo stack
get_redo_stack_state(hp, memento) ==
    [heap |-> ListCopy(hp, memento.ref), ref |-> NewRef(hp)]

\* CalculatorHistoryManager.save_state: CalculatorMemento(get_history(),
\* _redo_stack[:]); the client keeps the memento returned
SaveState ==
    LET got == get_history(store.heap, store.history)
        history_state == CalculatorMemento(got.heap, got.ref)
        sliced == ListCopy(history_state.heap, store.redo_stack)
        redo_stack_state == CalculatorMemento(sliced, NewRef(history_state.heap))
    IN  /\ store' = StoreAfter(redo_stack_state.heap, store.history, store.redo_stack,
                               <<history_state.memento, redo_stack_state.memento>>,
                               "save_state")
        /\ UNCHANGED <<CalculatorVars, serial, probe, repl>>

\* CalculatorHistoryManager.restore_state(memento), with the memento kept
RestoreState ==
    /\ store.saved # <<>>
    /\ LET h == get_history_state(store.heap, store.saved[1])
           r == get_redo_stack_state(h.heap, store.saved[2])
       IN  store' = StoreAfter(r.heap, h.ref, r.ref, store.saved, "restore_state")
    /\ UNCHANGED <<CalculatorVars, serial, probe, repl>>

\* ---------------------------------------------------------- direct calls

\* raw operands around the limit, and one that is no number
RawOperands == {Num(v) : v \in (0 - (MaxInputValue + 2))..(MaxInputValue + 2)} \cup {NotANumber}
\* Decimal operands of an operation called directly
SmallOperands == (0 - MaxOperand)..MaxOperand
\* the operands modulus and int_divide are called on as well
WideOperands == (0 - MaxInputValue)..MaxInputValue

\* observers of a client whose update may detach an observer from the subject
DetachingObservers == {"first", "second", "third"}
Detaches == [DetachingObservers -> DetachingObservers \cup {None}]
DetachNobody == [o \in DetachingObservers |-> None]

\* the observer lists a notification can start from: no observer twice
ObserverLists ==
    { <<>> }
    \cup { <<x>> : x \in DetachingObservers }
    \cup { lst \in DetachingObservers \X DetachingObservers : lst[1] # lst[2] }
    \cup { lst \in DetachingObservers \X DetachingObservers \X DetachingObservers :
              lst[1] # lst[2] /\ lst[1] # lst[3] /\ lst[2] # lst[3] }

\* `for observer in self.observers: observer.update(...)` while an update
\* removes observers: the loop reads the live list by position, so the list
\* as it is after each update decides what position i + 1 holds.  The value
\* is the sequence of observers whose update ran.
RECURSIVE notify_live(_, _, _, _)
notify_live(lst, i, detaches, called) ==
    IF i > Len(lst) THEN called
    ELSE LET observer == lst[i]
             after == IF detaches[observer] = None THEN lst
                      ELSE Remove(lst, detaches[observer])
         IN  notify_live(after, i + 1, detaches, Append(called, observer))

NoResult == [ok |-> FALSE, val |-> Dec(0), error |-> None]
NoProbe ==
    [ fn |-> "none", done |-> FALSE, name |-> "add", a |-> Num(0), b |-> Num(0),
      enabled |-> FALSE, subject |-> None, result |-> NoResult, saves |-> 0,
      observers |-> <<>>, detaches |-> DetachNobody, called |-> <<>> ]

\* the calls the model makes: validate_number(a), Operation.execute(a, b) for
\* every registered operation, AutoSaveObserver.update(subject), and
\* notify_observers on a list of observers that detach observers
ProbeCalls ==
    { [NoProbe EXCEPT !.fn = "validate_number", !.a = a] : a \in RawOperands }
    \cup { [NoProbe EXCEPT !.fn = "execute", !.name = name, !.a = Num(x), !.b = Num(y)] :
              name \in DOMAIN Operations, x \in SmallOperands, y \in SmallOperands }
    \cup { [NoProbe EXCEPT !.fn = "execute", !.name = name, !.a = Num(x), !.b = Num(y)] :
              name \in {"modulus", "int_divide"}, x \in WideOperands, y \in WideOperands }
    \cup { [NoProbe EXCEPT !.fn = "update", !.enabled = enabled, !.subject = subject] :
              enabled \in BOOLEAN, subject \in SubjectTypes }
    \cup { [NoProbe EXCEPT !.fn = "notify_observers", !.observers = lst, !.detaches = d] :
              lst \in ObserverLists, d \in Detaches }

ValidateNumber ==
    /\ probe.fn = "validate_number"
    /\ ~probe.done
    /\ probe' = [probe EXCEPT !.done = TRUE, !.result = validate_number(probe.a)]
    /\ UNCHANGED <<CalculatorVars, serial, store, repl>>

ExecuteOperation ==
    /\ probe.fn = "execute"
    /\ ~probe.done
    /\ probe' = [probe EXCEPT
                    !.done = TRUE,
                    !.result = execute(create_operation(probe.name).val,
                                       probe.a.value, probe.b.value)]
    /\ UNCHANGED <<CalculatorVars, serial, store, repl>>

UpdateAutoSave ==
    /\ probe.fn = "update"
    /\ ~probe.done
    /\ probe' = [probe EXCEPT
                    !.done = TRUE,
                    !.saves = AutoSaveObserver_update(probe.enabled, probe.subject)]
    /\ UNCHANGED <<CalculatorVars, serial, store, repl>>

NotifyDetaching ==
    /\ probe.fn = "notify_observers"
    /\ ~probe.done
    /\ probe' = [probe EXCEPT
                    !.done = TRUE,
                    !.called = notify_live(probe.observers, 1, probe.detaches, <<>>)]
    /\ UNCHANGED <<CalculatorVars, serial, store, repl>>

\* ------------------------------------------------------- the command loop

\* what input() gives: a line of text, or an exception raised in its place
Typed(text) == [raised |-> None, text |-> text]
Raised(e) == [raised |-> e, text |-> ""]
NoInput == Typed("")

\* str.lower().strip() on the lines of the model
lower_strip(text) ==
    CASE text = " EXIT " -> "exit"
      [] text = "Cancel " -> "cancel"
      [] OTHER -> text

ArithmeticCommands ==
    { "add", "subtract", "multiply", "divide", "power", "root", "modulus",
      "int_divide", "percent", "abs_diff" }

\* lines and exceptions the user gives at "Enter command:"
CommandInputs ==
    { Typed(t) : t \in { "", "help", "exit", " EXIT ", "history", "clear", "undo", "redo",
                         "save", "load", "add", "root", "bogus" } }
    \cup { Raised("KeyboardInterrupt"), Raised("EOFError") }

\* lines and exceptions the user gives at "First number:" / "Second number:"
OperandInputs ==
    { Typed(t) : t \in {"2", "abc", "cancel", "Cancel "} }
    \cup { Raised("KeyboardInterrupt"), Raised("EOFError") }

\* how a call of the calculator ends: normally (Ok, or "False" from undo and
\* redo), with a typed error, or with another exception
CallOutcomes == {Ok, "False", ValidationError, OperationError, RuntimeError}

\* the REPL before calculator_repl() is entered
NoRepl ==
    [ pc |-> "start", command |-> None, input |-> NoInput, outcome |-> None,
      reported |-> None, saves |-> 0, sets |-> 0, performs |-> 0, reads |-> 0,
      ended |-> None, goodbye |-> FALSE, sys_exit |-> FALSE ]

\* Calculator(config) and add_observer succeed, or the fatal-error handler
\* prints and calls sys.exit(1)
Startup(ok) ==
    /\ repl.pc = "start"
    /\ repl' = IF ok
               THEN [repl EXCEPT !.pc = "command", !.reported = "Calculator started"]
               ELSE [repl EXCEPT !.pc = "ended", !.ended = "fatal", !.reported = "Fatal error",
                                 !.sys_exit = TRUE]
    /\ UNCHANGED <<CalculatorVars, serial, store, probe>>

\* mutant: Ctrl+C ends the loop
InterruptedEnds(r) ==
    [r EXCEPT !.pc = "ended", !.ended = "interrupt", !.command = None,
              !.reported = "Operation cancelled. Type 'exit' to quit"]

\* except KeyboardInterrupt: report, continue
Interrupted(r) ==
    [r EXCEPT !.pc = "command", !.command = None,
              !.reported = "Operation cancelled. Type 'exit' to quit"]

\* the 'exit' command and the EOFError handler: one save_history() whose
\* exceptions are all caught, Goodbye, break
SaveAndLeave(r, outcome, how) ==
    [r EXCEPT !.pc = "ended", !.ended = how, !.command = None, !.outcome = outcome,
              !.saves = @ + 1,
              !.reported = IF outcome = Ok THEN "History saved successfully"
                           ELSE "Warning: Could not save history",
              !.goodbye = TRUE]

\* except Exception of the loop: report, break
Unhandled(r, outcome) ==
    [r EXCEPT !.pc = "ended", !.ended = "error", !.command = None, !.outcome = outcome,
              !.reported = "An unhandled error occurred"]

\* the except clauses of an arithmetic command: report, continue
ArithmeticFailed(r, outcome) ==
    [r EXCEPT !.pc = "command", !.command = None, !.outcome = outcome,
              !.reported = IF outcome \in {ValidationError, OperationError}
                           THEN "Error" ELSE "Unexpected error"]

\* mutant: the cancel is noticed after set_operation was called
CancelledLate(r) ==
    [r EXCEPT !.pc = "command", !.command = None, !.sets = @ + 1,
              !.reported = "Operation cancelled"]

\* 'cancel' at an operand prompt: report, continue
Cancelled(r) ==
    [r EXCEPT !.pc = "command", !.command = None, !.reported = "Operation cancelled"]

\* one pass of the loop from "Enter command:" up to the next input()
ReadCommand(input, outcome) ==
    /\ repl.pc = "command"
    /\ repl.reads < MaxReads
    /\ LET r == [repl EXCEPT !.input = input, !.reads = @ + 1, !.outcome = None]
           command == lower_strip(input.text)
           failed == outcome \notin {Ok, "False"}
       IN  repl' =
             IF input.raised = "KeyboardInterrupt" THEN Interrupted(r)
             ELSE IF input.raised = "EOFError" THEN SaveAndLeave(r, outcome, "eof")
             ELSE IF command = "" THEN [r EXCEPT !.reported = "No command entered"]
             ELSE IF command = "help" THEN [r EXCEPT !.reported = "Available commands"]
             ELSE IF command = "exit" THEN SaveAndLeave(r, outcome, "exit")
             ELSE IF command \in {"history", "clear", "undo", "redo"}
                  THEN IF failed THEN Unhandled(r, outcome)
                       ELSE [r EXCEPT !.outcome = outcome, !.reported = command]
             ELSE IF command = "save"
                  THEN [r EXCEPT !.outcome = outcome, !.saves = @ + 1,
                                 !.reported = IF failed THEN "Error saving history"
                                              ELSE "History saved successfully"]
             ELSE IF command = "load"
                  THEN [r EXCEPT !.outcome = outcome,
                                 !.reported = IF failed THEN "Error loading history"
                                              ELSE "History loaded successfully"]
             ELSE IF command \in ArithmeticCommands
                  THEN [r EXCEPT !.pc = "first", !.command = command,
                                 !.reported = "Enter numbers"]
             ELSE [r EXCEPT !.reported = "Unknown command"]
    /\ UNCHANGED <<CalculatorVars, serial, store, probe>>

\* input("First number: ") of an arithmetic command
ReadFirst(input) ==
    /\ repl.pc = "first"
    /\ repl.reads < MaxReads
    /\ LET r == [repl EXCEPT !.input = input, !.reads = @ + 1, !.outcome = None]
       IN  repl' =
             IF input.raised = "KeyboardInterrupt" THEN Interrupted(r)
             ELSE IF input.raised = "EOFError" THEN ArithmeticFailed(r, "EOFError")
             ELSE IF lower_strip(input.text) = "cancel" THEN Cancelled(r)
             ELSE [r EXCEPT !.pc = "second"]
    /\ UNCHANGED <<CalculatorVars, serial, store, probe>>

\* input("Second number: "), then set_operation and perform_operation
ReadSecond(input, set_outcome, outcome) ==
    /\ repl.pc = "second"
    /\ repl.reads < MaxReads
    /\ LET r == [repl EXCEPT !.input = input, !.reads = @ + 1, !.outcome = None]
       IN  repl' =
             IF input.raised = "KeyboardInterrupt" THEN Interrupted(r)
             ELSE IF input.raised = "EOFError" THEN ArithmeticFailed(r, "EOFError")
             ELSE IF lower_strip(input.text) = "cancel" THEN Cancelled(r)
             ELSE IF set_outcome # Ok
                  THEN ArithmeticFailed([r EXCEPT !.sets = @ + 1], set_outcome)
             ELSE IF outcome # Ok
                  THEN ArithmeticFailed([r EXCEPT !.sets = @ + 1, !.performs = @ + 1], outcome)
             ELSE [r EXCEPT !.pc = "command", !.command = None, !.outcome = Ok,
                            !.sets = @ + 1, !.performs = @ + 1, !.reported = "Result"]
    /\ UNCHANGED <<CalculatorVars, serial, store, probe>>

\* -------------------------------------------------------- specifications

\* nothing is being serialized, no CalculationHistory is in use and no
\* function is called directly
Aside == serial = NoSerial /\ store = EmptyStore /\ probe = NoProbe /\ repl = NoRepl

\* A session used without observers, started on any history file: the
\* history engine and its persistence.
Init == (\E file \in Files : Start(file)) /\ Aside

Next ==
    \/ \E command_name \in CommandNames : SetOperation(command_name)
    \/ \E ab \in OperandPairs, io_ok \in BOOLEAN : PerformOperation(ab[1], ab[2], io_ok)
    \/ \E file \in Files : LoadHistory(file)
    \/ ClearHistory
    \/ Undo
    \/ Redo
    \/ MutateReturnedHistory
    \/ MutateReturnedState

Spec == Init /\ [][Next]_vars

\* A session started without a history file, on which the front end
\* registers and removes observers.
InitObservers == Start(NoFile) /\ Aside

NextObservers ==
    \/ \E observer \in Observers : AddObserver(observer)
    \/ \E observer \in Observers : RemoveObserver(observer)
    \/ \E command_name \in CommandNames : SetOperation(command_name)
    \/ \E ab \in OperandPairs, io_ok \in BOOLEAN : PerformOperation(ab[1], ab[2], io_ok)
    \/ \E io_ok \in BOOLEAN : SaveHistory(io_ok)
    \/ ClearHistory
    \/ Undo
    \/ Redo

SpecObservers == InitObservers /\ [][NextObservers]_vars

\* A session started on any history file, on which a client registers
\* observers of its own.
NextClient ==
    \/ \E observer \in ClientObservers : AddObserver(observer)
    \/ \E command_name \in CommandNames : SetOperation(command_name)
    \/ \E ab \in OperandPairs : PerformOperation(ab[1], ab[2], TRUE)

SpecClient == Init /\ [][NextClient]_vars

\* Any constructible Calculation, serialized with to_dict and read back
\* with from_dict.
InitSerial ==
    /\ Start(NoFile)
    /\ store = EmptyStore
    /\ probe = NoProbe
    /\ repl = NoRepl
    /\ \E c \in ValidCalculations : serial = [NoSerial EXCEPT !.stage = "made", !.calculation = c]

NextSerial == ToDict \/ FromDict

SpecSerial == InitSerial /\ [][NextSerial]_vars

\* A CalculationHistory whose client adds, undoes and redoes calculations and
\* saves and restores its state through a CalculatorHistoryManager.
InitStore == Start(NoFile) /\ Aside

NextStore ==
    \/ \E calculation \in StoreCalculations : AddCalculation(calculation)
    \/ HistoryClear
    \/ HistoryUndo
    \/ HistoryRedo
    \/ SaveState
    \/ RestoreState

SpecStore == InitStore /\ [][NextStore]_vars

\* One direct call of the operand validation, of an operation, of
\* AutoSaveObserver.update or of notify_observers, on any of the arguments
\* of ProbeCalls.
InitFunctions ==
    /\ Start(NoFile)
    /\ serial = NoSerial
    /\ store = EmptyStore
    /\ \E call \in ProbeCalls : probe = call
    /\ repl = NoRepl

NextFunctions == ValidateNumber \/ ExecuteOperation \/ UpdateAutoSave \/ NotifyDetaching

SpecFunctions == InitFunctions /\ [][NextFunctions]_vars

\* One run of calculator_repl(): the user types lines, presses Ctrl+C or
\* Ctrl+D at any prompt, and the calls of the calculator end as they may.
InitRepl ==
    /\ Start(NoFile)
    /\ serial = NoSerial
    /\ store = EmptyStore
    /\ probe = NoProbe
    /\ repl = NoRepl

NextRepl ==
    \/ \E ok \in BOOLEAN : Startup(ok)
    \/ \E input \in CommandInputs, outcome \in CallOutcomes : ReadCommand(input, outcome)
    \/ \E input \in OperandInputs : ReadFirst(input)
    \/ \E input \in OperandInputs, set_outcome \in {Ok, OperationError},
          outcome \in CallOutcomes \ {"False"} :
            ReadSecond(input, set_outcome, outcome)

SpecRepl == InitRepl /\ [][NextRepl]_vars

\* ------------------------------------------------------------------ claims

Min(x, y) == IF x < y THEN x ELSE y
LastN(s, n) == SubSeq(s, Len(s) - n + 1, Len(s))
StackMementos == {undo_stack[i] : i \in 1..Len(undo_stack)}
                     \cup {redo_stack[i] : i \in 1..Len(redo_stack)}

\* C1: on a session that started empty and has only performed operations, the
\* history never exceeds max_history_size and is exactly the most recent
\* min(n, max_history_size) of the n Calculations performed, in the order
\* they were performed (eviction is oldest first).
C1_BoundedOldestFirst ==
    (run.valid /\ run.undone = 0) =>
        /\ Len(HistoryList) <= MaxHistory
        /\ HistoryList = LastN(run.recs, Min(Len(run.recs), MaxHistory))

\* C1 witness: an operation has just evicted the oldest record
C1_Witness ==
    /\ run.valid /\ run.undone = 0
    /\ last.op = "perform_operation" /\ last.outcome = Ok
    /\ Len(run.recs) > MaxHistory
    /\ Len(HistoryList) = MaxHistory

\* C2: len(history) <= max_history_size in every reachable state, whatever
\* mutation came last (perform_operation, undo, redo, clear_history,
\* load_history), a load of a file with more records than the bound included.
C2_HistoryWithinBound == Len(HistoryList) <= MaxHistory

\* C3: undo() immediately followed by redo() gives back exactly the history
\* (same records, same order) that the session held before the undo, also when
\* the history is full and earlier operations evicted records.
C3_UndoRedoRestores ==
    (last.op = "redo" /\ last.after_undo) =>
        /\ last.outcome = Ok
        /\ HistoryList = last.before

\* C3 witness: undo then redo on a full history whose oldest record was evicted
C3_Witness ==
    /\ last.op = "redo" /\ last.after_undo /\ last.outcome = Ok
    /\ run.valid /\ Len(run.recs) > MaxHistory
    /\ Len(HistoryList) = MaxHistory

\* C4: a successful operation performed after undo() leaves the redo stack
\* empty, and a redo() called right after it finds nothing to redo and leaves
\* the history as it is.
C4_NewOperationClearsRedo ==
    [][ /\ (last'.op = "perform_operation" /\ last'.outcome = Ok) => redo_stack' = <<>>
        /\ (last.op = "perform_operation" /\ last.outcome = Ok /\ last'.op = "redo") =>
               /\ last'.outcome = "False"
               /\ HistoryList' = HistoryList ]_vars

\* C4 witness: an operation has succeeded while the redo stack was not empty
C4_Witness ==
    /\ last.op = "perform_operation" /\ last.outcome = Ok
    /\ last.redo_before > 0
    /\ redo_stack = <<>>

\* C6: on a session that started empty, after n <= max_history_size successful
\* operations the k-th consecutive undo() leaves the first n - k records in
\* order, undo() is refused only when all n are undone (the history is then
\* empty), and never more than n undos succeed.
C6_UndoDownToEmpty ==
    (run.valid /\ Len(run.recs) <= MaxHistory) =>
        /\ run.undone \in 0..Len(run.recs)
        /\ HistoryList = SubSeq(run.recs, 1, Len(run.recs) - run.undone)
        /\ (last.op = "undo" /\ last.outcome = "False") =>
               (run.undone = Len(run.recs) /\ HistoryList = <<>>)

\* C6 witness: two operations, both undone, and a third undo() refused
C6_Witness ==
    /\ run.valid /\ Len(run.recs) = MaxHistory /\ run.undone = Len(run.recs)
    /\ last.op = "undo" /\ last.outcome = "False"
    /\ HistoryList = <<>>

\* C7: a memento holds the records it captured whatever happens later to the
\* live history or to a list an accessor returned, and the live history and
\* the mementos on the two stacks are all different list objects.
C7_MementosIndependent ==
    /\ \A m \in StackMementos : heap[m.ref] = m.captured
    /\ Cardinality({history} \cup {m.ref : m \in StackMementos})
           = 1 + Len(undo_stack) + Len(redo_stack)

\* C7 witness: a caller has mutated a list returned by get_history_state while
\* both stacks hold mementos that differ from the live history
C7_Witness ==
    /\ last.op = "get_history_state"
    /\ undo_stack # <<>> /\ redo_stack # <<>>
    /\ \A m \in StackMementos : m.captured # HistoryList

\* what the caller of the last perform_operation did wrong, if anything: no
\* operation selected, an operand not numeric or beyond max_input_value, or
\* operands the selected operation does not accept (a zero divisor)
OutOfRange(x) == x.numeric /\ Abs(x.value) > MaxInputValue
RejectedCall ==
    \/ last_command_name = None
    \/ ~last.a.numeric \/ ~last.b.numeric
    \/ OutOfRange(last.a) \/ OutOfRange(last.b)
    \/ (last_command_name = "divide" /\ last.b.value = 0)

TypedErrors == {ValidationError, OperationError}

\* C5: a perform_operation call made with no operation selected, with an
\* operand that is not numeric or exceeds max_input_value, or with operands the
\* operation rejects, raises a typed error, leaves the history, both stacks
\* and the observer list as they were and invokes no observer.
C5_RejectedCallChangesNothing ==
    [][ (last'.op = "perform_operation" /\ RejectedCall') =>
            /\ last'.outcome \in TypedErrors
            /\ UNCHANGED <<heap, history, undo_stack, redo_stack, observers>>
            /\ notified' = <<>> ]_vars

\* C5 witness: divide by zero refused on a session with observers and with
\* mementos on both stacks
C5_Witness ==
    /\ last.op = "perform_operation" /\ last.outcome = OperationError
    /\ last_command_name = "divide" /\ last.b = Num(0)
    /\ observers # <<>> /\ undo_stack # <<>> /\ redo_stack # <<>>

\* the last call was a perform_operation that got as far as notifying
Notifying == last.op = "perform_operation" /\ ~RejectedCall

IsPrefix(s, t) == Len(s) <= Len(t) /\ s = SubSeq(t, 1, Len(s))

C9_HistoryChangesNotify ==
    (last.op \in {"undo", "redo", "clear_history"} /\ last.outcome = Ok) =>
        notified = observers

\* C10: whenever perform_operation raises ValidationError or OperationError,
\* for whatever reason, the history and both stacks are as before the call.
C10_TypedFailureChangesNothing ==
    [][ (last'.op = "perform_operation" /\ last'.outcome \in TypedErrors) =>
            UNCHANGED <<heap, history, undo_stack, redo_stack>> ]_vars

\* C11: an exception an observer raises while perform_operation notifies is
\* not masked: the caller of perform_operation gets that same exception.
C11_ObserverFailureNotMasked ==
    (last.op = "perform_operation" /\ last.raised # None) => last.outcome = last.raised

\* C12: undo() with nothing to undo raises NothingToUndoError and redo() with
\* an empty redo stack raises NothingToRedoError (both HistoryErrors); neither
\* reports the condition through its return value.
C12_NothingToUndoRaises ==
    [][ /\ (last'.op = "undo" /\ undo_stack = <<>>) => last'.outcome = "NothingToUndoError"
        /\ (last'.op = "redo" /\ redo_stack = <<>>) => last'.outcome = "NothingToRedoError"
      ]_vars

C14_ClearEmptiesEverything ==
    [][ /\ last'.op = "clear_history" =>
               (HistoryList' = <<>> /\ undo_stack' = <<>> /\ redo_stack' = <<>>)
        /\ (last.op = "clear_history" /\ last'.op \in {"undo", "redo"}) =>
               (last'.outcome = "False" /\ HistoryList' = <<>>
                    /\ undo_stack' = <<>> /\ redo_stack' = <<>>)
      ]_vars

\* C14 witness: clear_history() on a session that held records and mementos
\* on both stacks
C14_Witness ==
    /\ last.op = "clear_history"
    /\ last.before # <<>> /\ last.redo_before > 0
    /\ HistoryList = <<>> /\ undo_stack = <<>> /\ redo_stack = <<>>

\* the record a row of the history file stands for
SameRecord(calculation, row) ==
    /\ calculation.operation_name = row.operation
    /\ calculation.operand1 = row.operand1.value
    /\ calculation.operand2 = row.operand2.value
    /\ isoformat(calculation.timestamp) = row.timestamp

\* C18: after a successful load_history of a non-empty file the history is
\* the records of the file in file order, the undo stack holds exactly one
\* memento, whose content is the loaded history, and the redo stack is empty.
C18_LoadReplacesSession ==
    (last.op = "load_history" /\ last.outcome = Ok /\ last.rows # <<>>) =>
        /\ Len(HistoryList) = Len(last.rows)
        /\ \A i \in 1..Len(last.rows) : SameRecord(HistoryList[i], last.rows[i])
        /\ Len(undo_stack) = 1
        /\ heap[undo_stack[1].ref] = HistoryList
        /\ redo_stack = <<>>

\* C18 witness: a file of several rows loaded into a session that had
\* performed operations
C18_Witness ==
    /\ last.op = "load_history" /\ last.outcome = Ok
    /\ Len(last.rows) > 1 /\ clock > 0
    /\ Len(HistoryList) = Len(last.rows)

\* C19: a snapshot of the empty state is captured at session start, so after
\* n successful operations and no undo the undo stack holds n + 1 snapshots.
C19_InitialSnapshot ==
    (run.valid /\ run.undone = 0) => Len(undo_stack) = Len(run.recs) + 1

\* C20: when perform_operation invokes an observer, the new record is already
\* the last entry of the history, the history is within max_history_size and
\* the redo stack is empty.
C20_ObserverSeesCommittedState ==
    (last.op = "perform_operation" /\ notified # <<>>) =>
        /\ last.seen.history # <<>>
        /\ last.seen.history[Len(last.seen.history)] = last.seen.calculation
        /\ Len(last.seen.history) <= MaxHistory
        /\ last.seen.redo_stack = <<>>

\* result is what the operation called name gives for (a, b)
Applied(name, a, b, result) ==
    \/ name = "add" /\ result = <<a + b, 1>>
    \/ name = "subtract" /\ result = <<a - b, 1>>
    \/ name = "divide" /\ b # 0 /\ result[2] > 0 /\ result[1] * b = a * result[2]
                        /\ Gcd(Abs(result[1]), result[2]) = 1

\* C17: every Calculation in the history or in a memento has as result its
\* operation applied to its operands; a row naming an unknown operation or
\* operands the operation rejects is not loaded, and a loaded record has the
\* recomputed result, not the one stored in the row.
C17_ResultIsOperationApplied ==
    /\ \A r \in 1..Len(heap) : \A i \in 1..Len(heap[r]) :
           Applied(heap[r][i].operation_name, heap[r][i].operand1,
                   heap[r][i].operand2, heap[r][i].result)
    /\ (last.op = "load_history" /\ last.outcome = Ok) =>
           \A i \in 1..Len(last.rows) :
               /\ last.rows[i].operation \in {"add", "subtract", "divide"}
               /\ last.rows[i].operation = "divide" => last.rows[i].operand2.value # 0

\* C17 witness: a row with a wrong stored result has been loaded into a
\* session that had performed operations
C17_Witness ==
    /\ last.op = "load_history" /\ last.outcome = Ok
    /\ Len(last.rows) = 1 /\ Len(HistoryList) = 1
    /\ last.rows[1].result # HistoryList[1].result
    /\ clock > 0

\* C16: Calculation.from_dict(c.to_dict()) gives c back for every valid
\* Calculation c: the same operation name, operands, result and timestamp.
C16_DictRoundTrip ==
    serial.stage = "parsed" => (serial.back.ok /\ serial.back.value = serial.calculation)

\* C16 witness: a quotient of a negative two-digit operand has made the round trip
C16_Witness ==
    /\ serial.stage = "parsed" /\ serial.back.ok
    /\ serial.calculation.operation_name = "divide"
    /\ serial.calculation.operand1 < -9
    /\ serial.calculation.result[2] > 1
    /\ serial.data.operand1.negative /\ Len(serial.data.operand1.digits) = 2

StoreHistory == store.heap[store.history]
StoreRedoStack == store.heap[store.redo_stack]

\* C15: restore_state(m) sets the history and the redo stack to the contents
\* m captured when it was saved, whatever was added, undone or redone since,
\* and m stays as it was: restoring it again gives the same history.
C15_RestoreGivesCaptured ==
    [][ /\ store'.call = "restore_state" =>
               /\ store'.heap[store'.history] = store'.saved[1].captured
               /\ store'.heap[store'.redo_stack] = store'.saved[2].captured
        /\ (store.call = "restore_state" /\ store'.call = "restore_state") =>
               store'.heap[store'.history] = store.heap[store.history]
        /\ (store.saved # <<>> /\ store'.call # "save_state") =>
               /\ store'.saved # <<>>
               /\ store'.saved[1].captured = store.saved[1].captured
               /\ store'.heap[store'.saved[1].ref] = store.saved[1].captured
               /\ store'.heap[store'.saved[2].ref] = store.saved[2].captured
      ]_vars

\* C15 witness: a memento with records in both lists restored over a
\* different history
C15_Witness ==
    /\ store.call = "restore_state"
    /\ store.saved[1].captured # <<>> /\ store.saved[2].captured # <<>>
    /\ store.before # StoreHistory
    /\ StoreHistory = store.saved[1].captured

\* ------------------------------------------------- registering observers

NoDuplicates(lst) == \A i, j \in 1..Len(lst) : lst[i] = lst[j] => i = j
Registered(lst, x) == \E i \in 1..Len(lst) : lst[i] = x
Without(lst, x) == SelectSeq(lst, LAMBDA y : y # x)

\* C21: whatever add_observer and remove_observer calls are made, the
\* observer list holds no observer twice and keeps the order of attachment:
\* adding a registered observer and removing an unregistered one change
\* nothing and raise nothing, adding a new one puts it last, removing a
\* registered one takes it out and keeps the others in order; no other call
\* touches the list.
C21_ObserverListIsOrderedSet ==
    [][ /\ NoDuplicates(observers')
        /\ last'.op = "add_observer" =>
              /\ last'.outcome = Ok
              /\ observers' = IF Registered(observers, last'.arg)
                              THEN observers
                              ELSE Append(observers, last'.arg)
        /\ last'.op = "remove_observer" =>
              /\ last'.outcome = Ok
              /\ observers' = IF Registered(observers, last'.arg)
                              THEN Without(observers, last'.arg)
                              ELSE observers
        /\ last'.op \notin {"add_observer", "remove_observer"} => observers' = observers
      ]_vars

\* an observer that was registered first of two has just been added again
C21_Witness ==
    /\ last.op = "add_observer"
    /\ Len(observers) = 2
    /\ observers[1] = last.arg

\* ------------------------------------------------- selecting an operation

\* C22: set_operation with a name that is not registered raises
\* OperationError and leaves the selected strategy and command name as they
\* were; no set_operation, successful or not, changes the history, the undo
\* stack or the redo stack.
C22_SetOperationKeepsSession ==
    [][ last'.op = "set_operation" =>
          /\ UNCHANGED <<heap, history, undo_stack, redo_stack>>
          /\ last'.arg \notin DOMAIN Operations =>
                /\ last'.outcome = OperationError
                /\ UNCHANGED <<operation_strategy, last_command_name>>
      ]_vars

\* an unregistered name was refused while an operation was selected and the
\* session held a record and snapshots on both stacks
C22_Witness ==
    /\ last.op = "set_operation"
    /\ last.outcome = OperationError
    /\ last.arg \notin DOMAIN Operations
    /\ operation_strategy # None
    /\ last_command_name # None
    /\ HistoryList # <<>>
    /\ undo_stack # <<>>
    /\ redo_stack # <<>>

\* ------------------------------------------------------ operand validation

\* C23: the operand validation rejects with ValidationError every operand
\* that is not numeric or whose absolute value exceeds max_input_value, and
\* accepts, unchanged, every numeric operand whose absolute value is at most
\* max_input_value: the limit itself is accepted.
C23_ValidationRejectsExactly ==
    (probe.fn = "validate_number" /\ probe.done) =>
        IF ~probe.a.numeric \/ Abs(probe.a.value) > MaxInputValue
        THEN ~probe.result.ok /\ probe.result.error = ValidationError
        ELSE probe.result.ok /\ probe.result.val = probe.a.value

\* an operand whose absolute value is the limit was accepted
C23_Witness ==
    /\ probe.fn = "validate_number"
    /\ probe.done
    /\ probe.a.numeric
    /\ Abs(probe.a.value) = MaxInputValue
    /\ probe.result.ok

\* ------------------------------------------------- domains of the operations

\* the operand pairs the operations are to refuse
DomainViolation(name, x, y) ==
    \/ name \in {"divide", "modulus", "int_divide", "percent"} /\ y = 0
    \/ name = "root" /\ (y = 0 \/ (x < 0 /\ y % 2 = 0))
    \/ name = "power" /\ y < 0

\* C24: Operation.execute raises OperationError exactly for the domain
\* violations of its operation (second operand zero for divide, modulus,
\* int_divide and percent; degree zero, or negative base with even degree,
\* for root; negative exponent for power) and returns a result for every
\* other pair of operands.
C24_RejectsExactlyDomainViolations ==
    (probe.fn = "execute" /\ probe.done) =>
        IF DomainViolation(probe.name, probe.a.value, probe.b.value)
        THEN ~probe.result.ok /\ probe.result.error = OperationError
        ELSE probe.result.ok

\* ------------------------------------------------------ AutoSaveObserver

C25_UpdatedWithTheCalculator ==
    (last.op = "perform_operation" /\ notified # <<>>) =>
        /\ NoDuplicates(notified)
        /\ last.seen.subject = "Calculator"
        /\ Registered(notified, "AutoSaveObserver") =>
              AutoSaveObserver_update(auto_save, last.seen.subject) = 1

\* ---------------------------------------------- what undo and redo return

\* C27: a successful undo() or redo() returns the record that is now the
\* latest of the history, or None when the history is now empty.
C27_UndoRedoReturnLatest ==
    (last.op \in {"undo", "redo"} /\ last.outcome = Ok) =>
        IF HistoryList = <<>>
        THEN last.returned.kind = None
        ELSE /\ last.returned.kind = "record"
             /\ last.returned.record = HistoryList[Len(HistoryList)]

\* ------------------------------------------------ the depth of the stacks

ContentsIn(hp, stack) == [i \in 1..Len(stack) |-> hp[stack[i].ref]]
Front(s, n) == SubSeq(s, 1, n)

\* C28: a successful perform_operation puts exactly one snapshot on the undo
\* stack; a successful undo takes exactly one snapshot off the undo stack and
\* puts one on the redo stack, a successful redo does the reverse, so undo
\* and redo keep len(undo_stack) + len(redo_stack); the snapshots that stay
\* on a stack keep their place and contents.
C28_SnapshotsMoveOneAtATime ==
    [][ /\ (last'.op = "perform_operation" /\ last'.outcome = Ok) =>
              /\ Len(undo_stack') = Len(undo_stack) + 1
              /\ Front(ContentsIn(heap', undo_stack'), Len(undo_stack))
                     = ContentsIn(heap, undo_stack)
        /\ (last'.op = "undo" /\ last'.outcome = Ok) =>
              /\ Len(undo_stack') = Len(undo_stack) - 1
              /\ Len(redo_stack') = Len(redo_stack) + 1
              /\ ContentsIn(heap', undo_stack')
                     = Front(ContentsIn(heap, undo_stack), Len(undo_stack) - 1)
              /\ Front(ContentsIn(heap', redo_stack'), Len(redo_stack))
                     = ContentsIn(heap, redo_stack)
        /\ (last'.op = "redo" /\ last'.outcome = Ok) =>
              /\ Len(redo_stack') = Len(redo_stack) - 1
              /\ Len(undo_stack') = Len(undo_stack) + 1
              /\ ContentsIn(heap', redo_stack')
                     = Front(ContentsIn(heap, redo_stack), Len(redo_stack) - 1)
              /\ Front(ContentsIn(heap', undo_stack'), Len(undo_stack))
                     = ContentsIn(heap, undo_stack)
      ]_vars

\* a redo has succeeded and left snapshots on both stacks
C28_Witness ==
    /\ last.op = "redo"
    /\ last.outcome = Ok
    /\ Len(undo_stack) >= 2
    /\ redo_stack # <<>>

\* ------------------------------------------------- undoing an operation

\* the Calculator half of C29: perform_operation, then undo
PerformThenUndoRestores ==
    [][ (last.op = "perform_operation" /\ last.outcome = Ok /\ last'.op = "undo") =>
            /\ last'.outcome = Ok
            /\ heap'[history'] = last.before ]_vars

\* C29: a successful operation immediately followed by undo leaves the
\* history exactly as it was before the operation, the record the operation
\* evicted back at the front; so for Calculator.perform_operation / undo and
\* for CalculationHistory.add_calculation / undo.
C29_UndoRestoresEvicted ==
    [][ /\ (last.op = "perform_operation" /\ last.outcome = Ok /\ last'.op = "undo") =>
              /\ last'.outcome = Ok
              /\ heap'[history'] = last.before
        /\ (store.call = "add_calculation" /\ store'.call = "undo") =>
              store'.heap[store'.history] = store.before
      ]_vars

\* ------------------------------------------------- what can be undone

\* C30: undo() reports success only while a performed operation remains to
\* be undone: right after the session started or load_history read a file,
\* undo() reports that there is nothing to undo, and every undo() that
\* reports success changes the history.
C30_LoadedStateNotUndoable ==
    [][ /\ (last.op \in {"__init__", "load_history"} /\ last'.op = "undo") =>
              last'.outcome # Ok
        /\ (last'.op = "undo" /\ last'.outcome = Ok) => heap'[history'] # heap[history]
      ]_vars

\* --------------------------------------------------- loading that fails

\* C31: when reading or parsing the history file fails, load_history raises
\* OperationError and the history, the undo stack and the redo stack hold
\* what they held before the call: nothing is loaded in part.
C31_FailedLoadChangesNothing ==
    [][ last'.op = "load_history" =>
          /\ last'.arg \in {"unreadable", "unparsable"} <=> last'.outcome # Ok
          /\ last'.outcome # Ok =>
                /\ last'.outcome = OperationError
                /\ heap'[history'] = heap[history]
                /\ ContentsIn(heap', undo_stack') = ContentsIn(heap, undo_stack)
                /\ ContentsIn(heap', redo_stack') = ContentsIn(heap, redo_stack)
      ]_vars

\* a file with an unparsable second row was refused by a session that held
\* records and snapshots on both stacks
C31_Witness ==
    /\ last.op = "load_history"
    /\ last.arg = "unparsable"
    /\ last.outcome = OperationError
    /\ HistoryList # <<>>
    /\ undo_stack # <<>>
    /\ redo_stack # <<>>

\* C32: load_history that finds no history file, or a file without rows,
\* leaves the history, the undo stack and the redo stack empty, whatever
\* they held before the call.
C32_LoadWithoutRowsEmpties ==
    (last.op = "load_history" /\ last.arg \in {"missing", "empty"}) =>
        /\ last.outcome = Ok
        /\ HistoryList = <<>>
        /\ undo_stack = <<>>
        /\ redo_stack = <<>>

\* load_history found no file in a session that held records and snapshots
\* to redo
C32_Witness ==
    /\ last.op = "load_history"
    /\ last.arg = "missing"
    /\ last.before # <<>>
    /\ last.redo_before > 0
    /\ HistoryList = <<>>

\* ------------------------------------- undo and redo of CalculationHistory

\* C33: CalculationHistory.undo removes the last record of the history,
\* pushes it on the redo stack and returns it; redo pops the redo stack,
\* appends that record to the history and returns it; each returns None and
\* changes nothing when its source is empty; undo followed by redo restores
\* the history and the redo stack as they were.
C33_HistoryUndoRedoMoveOneRecord ==
    [][ LET h == store.heap[store.history]
            r == store.heap[store.redo_stack]
            h2 == store'.heap[store'.history]
            r2 == store'.heap[store'.redo_stack]
        IN  /\ store'.call = "undo" =>
                  IF h = <<>>
                  THEN store'.returned.kind = None /\ h2 = h /\ r2 = r
                  ELSE /\ h2 = Front(h, Len(h) - 1)
                       /\ r2 = Append(r, h[Len(h)])
                       /\ store'.returned = ReturnedRecord(h[Len(h)])
            /\ store'.call = "redo" =>
                  IF r = <<>>
                  THEN store'.returned.kind = None /\ h2 = h /\ r2 = r
                  ELSE /\ r2 = Front(r, Len(r) - 1)
                       /\ h2 = Append(h, r[Len(r)])
                       /\ store'.returned = ReturnedRecord(r[Len(r)])
            /\ (store.call = "undo" /\ store.returned.kind = "record"
                    /\ store'.call = "redo") =>
                  /\ h2 = store.before
                  /\ r2 = Front(r, Len(r) - 1)
                  /\ store'.returned = store.returned
      ]_vars

\* an undo that moved a record onto a redo stack already holding one was
\* followed by a redo that returned the record
C33_Witness ==
    /\ store.call = "redo"
    /\ store.returned.kind = "record"
    /\ store.heap[store.redo_stack] # <<>>
    /\ Len(store.heap[store.history]) = Len(store.before) + 1

\* C34: in CalculationHistory len(_history) + len(_redo_stack) never exceeds
\* MAX_HISTORY_SIZE, whatever sequence of add_calculation, undo, redo,
\* clear_history and restore_state of a memento saved from the same history
\* is made: redo cannot push the history over its bound.
C34_HistoryPlusRedoWithinBound ==
    Len(store.heap[store.history]) + Len(store.heap[store.redo_stack]) <= MaxHistory

\* a redo has filled the history up to the bound
C34_Witness ==
    /\ store.call = "redo"
    /\ store.returned.kind = "record"
    /\ Len(store.heap[store.history]) = MaxHistory

\* ------------------------------------------------------ leaving the loop

\* the REPL has just read 'exit' at the command prompt
ReadsExit ==
    /\ repl.pc = "command"
    /\ repl'.reads = repl.reads + 1
    /\ repl'.input.raised = None
    /\ lower_strip(repl'.input.text) = "exit"

\* input() has just raised EOFError, at whichever prompt
ReadsEof ==
    /\ repl.pc \in {"command", "first", "second"}
    /\ repl'.reads = repl.reads + 1
    /\ repl'.input.raised = "EOFError"

\* the loop was left by a save_history() attempt and Goodbye, without sys.exit
LeavesSavingOnce ==
    /\ repl'.pc = "ended"
    /\ repl'.saves = repl.saves + 1
    /\ repl'.goodbye
    /\ ~repl'.sys_exit

\* the part of C35 that holds: 'exit', and EOF at the command prompt
ExitAndCommandEofSaveOnce ==
    [][ (ReadsExit \/ (ReadsEof /\ repl.pc = "command")) => LeavesSavingOnce ]_vars

\* C35: when the REPL reads 'exit' or meets the end of input (EOFError from
\* input()), it attempts save_history exactly once and then ends normally:
\* it prints Goodbye and does not call sys.exit, whether the save succeeds
\* or not.
C35_ExitAndEofSaveOnce ==
    [][ (ReadsExit \/ ReadsEof) => LeavesSavingOnce ]_vars

\* C36: the REPL never leaves its command loop without first attempting to
\* save the history: every step that ends the loop (exit, EOF, an unhandled
\* error raised while a command is processed) calls save_history.
C36_LoopLeftOnlyAfterSave ==
    [][ (repl.pc \in {"command", "first", "second"} /\ repl'.pc = "ended") =>
            repl'.saves = repl.saves + 1 ]_vars

\* ------------------------------------------------------ staying in the loop

KnownCommands ==
    {"help", "exit", "history", "clear", "undo", "redo", "save", "load"}
        \cup ArithmeticCommands

\* C37: the loop is not ended by empty input, an unknown command, help, a
\* KeyboardInterrupt, a cancelled operand prompt, or an arithmetic command
\* that fails with ValidationError, OperationError or another exception:
\* each is reported and the next command is read; a cancelled prompt calls
\* neither set_operation nor perform_operation.
C37_LoopSurvives ==
    [][ LET input == repl'.input
            typed == input.raised = None
            command == lower_strip(input.text)
            interrupt == input.raised = "KeyboardInterrupt"
            empty == repl.pc = "command" /\ typed /\ command = ""
            help == repl.pc = "command" /\ typed /\ command = "help"
            unknown == repl.pc = "command" /\ typed /\ command # ""
                          /\ command \notin KnownCommands
            cancel == repl.pc \in {"first", "second"} /\ typed /\ command = "cancel"
            failure == repl.pc = "second" /\ typed /\ command # "cancel"
                          /\ repl'.outcome \in {ValidationError, OperationError, RuntimeError}
        IN  (repl.pc \in {"command", "first", "second"} /\ repl'.reads = repl.reads + 1
                /\ (interrupt \/ empty \/ help \/ unknown \/ cancel \/ failure)) =>
              /\ repl'.pc = "command"
              /\ repl'.ended = None
              /\ ~repl'.goodbye
              /\ repl'.saves = repl.saves
              /\ repl'.reported =
                    CASE interrupt -> "Operation cancelled. Type 'exit' to quit"
                      [] empty -> "No command entered"
                      [] help -> "Available commands"
                      [] unknown -> "Unknown command"
                      [] cancel -> "Operation cancelled"
                      [] failure -> IF repl'.outcome = RuntimeError
                                    THEN "Unexpected error" ELSE "Error"
              /\ cancel => (repl'.sets = repl.sets /\ repl'.performs = repl.performs)
      ]_vars

\* the second operand prompt was cancelled and the loop is back at the
\* command prompt without a call of set_operation or perform_operation
C37_Witness ==
    /\ repl.pc = "command"
    /\ repl.reads >= 3
    /\ repl.input = Typed("Cancel ")
    /\ repl.reported = "Operation cancelled"
    /\ repl.sets = 0
    /\ repl.performs = 0

\* ------------------------------------------- division of negative operands

Sign(x) == IF x < 0 THEN 0 - 1 ELSE IF x > 0 THEN 1 ELSE 0

Count(seq, x) == Cardinality({i \in 1..Len(seq) : seq[i] = x})

\* C38: a notification reaches every observer that was registered when it
\* began exactly once, also when an observer detaches itself or another
\* observer from within its update.
C38_DetachDuringNotify ==
    (probe.fn = "notify_observers" /\ probe.done) =>
        \A i \in 1..Len(probe.observers) : Count(probe.called, probe.observers[i]) = 1

====
